---- MODULE Spec2Model ----
(***************************************************************************)
(* Model of stripe-service-api: the router (internal/server), the HTTP     *)
(* handlers (internal/handlers), the provider adapter (internal/service)   *)
(* and the request models (internal/models).                               *)
(*                                                                         *)
(* Spec follows one request from the router (or from a direct call of a    *)
(* handler method, as the handler tests do) to its response.  MainSpec     *)
(* follows the process (main) from its start to its exit: configuration,   *)
(* wiring, listener, termination signal and graceful shutdown.  ConcSpec   *)
(* interleaves several requests at their provider calls.  The behaviour    *)
(* of the libraries the code calls is modelled where the code calls them:  *)
(* gorilla/mux route matching, encoding/json decoding,                     *)
(* go-playground/validator tags, the stripe-go list iterator and context   *)
(* handling, and net/http's Shutdown.                                      *)
(***************************************************************************)
EXTENDS Integers, Sequences, FiniteSets, TLC

\* ------------------------------------------------------------------ bounds
\* number of customers the provider holds
NumCustomers == 3
\* largest page size a list request asks for
MaxLimitParam == 2

\* -------------------------------------------------------- program constants
DefaultCustomerLimit == 10
MaxCustomerLimit == 100
StatusOK == 200
StatusCreated == 201
StatusMovedPermanently == 301
StatusBadRequest == 400
StatusNotFound == 404
StatusMethodNotAllowed == 405
StatusInternalServerError == 500
DefaultPort == 8080
ExitOK == 0
ExitFatal == 1

\* ------------------------------------------------------------- JSON bodies
\* A JSON value of a body member: absent, a string, a number or a boolean.
Abs == [t |-> "absent", s |-> "", n |-> 0, b |-> FALSE]
Str(x) == [t |-> "string", s |-> x, n |-> 0, b |-> FALSE]
Num(x) == [t |-> "number", s |-> "", n |-> x, b |-> FALSE]
Bool(x) == [t |-> "bool", s |-> "", n |-> 0, b |-> x]

Keys ==
    {"email", "name", "phone", "description", "amount", "currency",
     "customer_id", "payment_method_id", "confirmation_method", "return_url",
     "active", "product_id", "unit_amount", "type", "recurring_interval",
     "price_id"}

EmptyObject == [k \in Keys |-> Abs]

\* Go type of the struct field a JSON key decodes into.
FieldType ==
    [k \in Keys |->
        IF k \in {"amount", "unit_amount"} THEN "number"
        ELSE IF k = "active" THEN "bool" ELSE "string"]

\* The JSON keys of each request struct.
ShapeKeys ==
    [CreateCustomerRequest |-> {"email", "name", "phone", "description"},
     CreatePaymentIntentRequest |->
        {"amount", "currency", "customer_id", "description",
         "payment_method_id", "confirmation_method"},
     ConfirmPaymentIntentRequest |-> {"payment_method_id", "return_url"},
     CreateProductRequest |-> {"name", "description", "active"},
     CreatePriceRequest |->
        {"product_id", "unit_amount", "currency", "type",
         "recurring_interval", "active"},
     CreateSubscriptionRequest |-> {"customer_id", "price_id"}]

Shapes == DOMAIN ShapeKeys

\* Body kinds: no bytes at all, bytes that are not JSON, the JSON literal
\* null, a JSON array, a JSON object.
BodyKinds == {"empty", "malformed", "null", "array", "object"}

NoBody == [kind |-> "empty", obj |-> EmptyObject]
RawBody(k) == [kind |-> k, obj |-> EmptyObject]
ObjBody(o) == [kind |-> "object", obj |-> o]

\* json.NewDecoder(r.Body).Decode(req) fails: no value, a syntax error, or a
\* JSON value of the wrong type for the struct or one of its known fields.
\* Unknown keys are ignored; null decodes into the zero struct.
DecodeFails(shape, body) ==
    \/ body.kind \in {"empty", "malformed", "array"}
    \/ /\ body.kind = "object"
       /\ \E k \in ShapeKeys[shape] :
            body.obj[k].t \notin {"absent", FieldType[k]}

\* The struct after a successful Decode: every field of the shape holds the
\* decoded member or the Go zero value; other keys are dropped.
Decode(shape, body) ==
    [k \in Keys |->
        IF body.kind = "object" /\ k \in ShapeKeys[shape]
           /\ body.obj[k].t = FieldType[k]
        THEN body.obj[k]
        ELSE IF FieldType[k] = "number" THEN Num(0)
        ELSE IF FieldType[k] = "bool" THEN Bool(FALSE)
        ELSE Str("")]

\* ------------------------------------------------------------- validation
ValidEmails == {"a@b.com"}
IsEmail(s) == s \in ValidEmails

\* validate:"required" on a string / an int64
RequiredStr(v) == v.s # ""
RequiredInt(v) == v.n # 0

ValidateCreateCustomerRequest(r) ==
    /\ RequiredStr(r["email"]) /\ IsEmail(r["email"].s)
    /\ RequiredStr(r["name"])

\* The payment intent tags without min=1 on the amount.
ValidateCreatePaymentIntentRequest_NoMin(r) ==
    /\ RequiredInt(r["amount"])
    /\ RequiredStr(r["currency"]) /\ Len(r["currency"].s) = 3

ValidateCreatePaymentIntentRequest(r) ==
    /\ RequiredInt(r["amount"]) /\ r["amount"].n >= 1
    /\ RequiredStr(r["currency"]) /\ Len(r["currency"].s) = 3

ValidateCreateProductRequest(r) ==
    RequiredStr(r["name"])

ValidateCreatePriceRequest(r) ==
    /\ RequiredStr(r["product_id"])
    /\ RequiredInt(r["unit_amount"]) /\ r["unit_amount"].n >= 1
    /\ RequiredStr(r["currency"]) /\ Len(r["currency"].s) = 3
    /\ RequiredStr(r["type"]) /\ r["type"].s \in {"one_time", "recurring"}

ValidateCreateSubscriptionRequest(r) ==
    /\ RequiredStr(r["customer_id"])
    /\ RequiredStr(r["price_id"])

\* h.validator.Struct(req): the struct satisfies its validate tags.
ValidatorStruct(shape, r) ==
    CASE shape = "CreateCustomerRequest" -> ValidateCreateCustomerRequest(r)
      [] shape = "CreatePaymentIntentRequest" ->
            ValidateCreatePaymentIntentRequest(r)
      [] shape = "CreateProductRequest" -> ValidateCreateProductRequest(r)
      [] shape = "CreatePriceRequest" -> ValidateCreatePriceRequest(r)
      [] shape = "CreateSubscriptionRequest" ->
            ValidateCreateSubscriptionRequest(r)
      [] shape = "ConfirmPaymentIntentRequest" -> TRUE

\* ------------------------------------------------------------ request inputs
\* Bodies sent by clients.  A body can be sent to any endpoint: the decoder
\* of that endpoint picks the keys of its own request struct.
CustomerBodies ==
    {ObjBody([EmptyObject EXCEPT !["email"] = e, !["name"] = n, !["phone"] = p]) :
        e \in {Abs, Str("not-an-email"), Str("a@b.com"), Num(5)},
        n \in {Abs, Str(""), Str("A")},
        p \in {Abs, Str("555")}}

PaymentIntentBodies ==
    {ObjBody([EmptyObject EXCEPT !["amount"] = a, !["currency"] = c,
                                 !["customer_id"] = u]) :
        a \in {Abs, Num(0), Num(-1), Num(1), Str("10")},
        c \in {Abs, Str("us"), Str("usd")},
        u \in {Abs, Str("cus_1")}}

ProductBodies ==
    {ObjBody([EmptyObject EXCEPT !["name"] = n, !["active"] = a,
                                 !["description"] = d]) :
        n \in {Abs, Str("P")},
        a \in {Abs, Bool(TRUE), Str("yes")},
        d \in {Abs, Str("d")}}

PriceBodies ==
    {ObjBody([EmptyObject EXCEPT !["product_id"] = p, !["unit_amount"] = a,
                                 !["currency"] = c, !["type"] = t,
                                 !["recurring_interval"] = i]) :
        p \in {Abs, Str("prod_1")},
        a \in {Abs, Num(0), Num(100)},
        c \in {Str("usd"), Str("usdx")},
        t \in {Abs, Str("one_time"), Str("recurring"), Str("weekly")},
        i \in {Abs, Str("month")}}

SubscriptionBodies ==
    {ObjBody([EmptyObject EXCEPT !["customer_id"] = c, !["price_id"] = p]) :
        c \in {Abs, Str("cus_1")},
        p \in {Abs, Str("price_1")}}

ConfirmBodies ==
    {ObjBody([EmptyObject EXCEPT !["payment_method_id"] = m,
                                 !["return_url"] = u]) :
        m \in {Abs, Str("pm_1"), Num(1)},
        u \in {Abs, Str("https://r")}}

Bodies ==
    {RawBody(k) : k \in {"empty", "malformed", "null", "array"}}
    \cup CustomerBodies \cup PaymentIntentBodies \cup ProductBodies
    \cup PriceBodies \cup SubscriptionBodies \cup ConfirmBodies

HTTPMethods == {"GET", "POST", "PUT", "DELETE", "OPTIONS"}

\* A URL path is the sequence of its segments after the leading slash:
\* "/api/v1/customers/" is <<"api", "v1", "customers", "">>, "/" is <<"">>.
Segs ==
    {"health", "customers", "payment-intents", "confirm", "products",
     "prices", "subscriptions", "cus_1", "", ".."}

\* longest free tail after /api/v1
MaxTailLen == 2

\* number of connections the server can have open at once
MaxConns == 2

\* number of requests that can be in flight at once
MaxInFlight == 2

Tails ==
    UNION {[1..n -> Segs] : n \in 0..MaxTailLen}
    \cup {<<a, b, "confirm">> : a \in {"payment-intents", "customers"}, b \in Segs}

Paths ==
    {<<"api", "v1">> \o t : t \in Tails}
    \cup {<<"">>, <<"health">>, <<"api", "v2", "health">>}

\* Path parameters a test hands to a handler method with mux.SetURLVars.
DirectIds == {"", "cus_1"}

\* Error texts of the provider.
ProviderErrors == {"card_declined", "No such customer: 'x'"}

\* Error of a provider call whose context was cancelled or timed out.
ContextCanceled == "context canceled"

\* ---------------------------------------------------------------- router
\* The route table of setupRouter in registration order.  OptionsNoop is the
\* inline handler of OPTIONS /customers; it has no action of its own because
\* corsMiddleware answers every OPTIONS request before the handler is reached.
Routes ==
    << [tpl |-> <<"api", "v1", "health">>,
        methods |-> {"GET", "OPTIONS"}, handler |-> "HealthCheck"],
       [tpl |-> <<"api", "v1", "customers">>,
        methods |-> {"POST"}, handler |-> "CreateCustomer"],
       [tpl |-> <<"api", "v1", "customers">>,
        methods |-> {"GET"}, handler |-> "ListCustomers"],
       [tpl |-> <<"api", "v1", "customers", "{id}">>,
        methods |-> {"GET"}, handler |-> "GetCustomer"],
       [tpl |-> <<"api", "v1", "customers">>,
        methods |-> {"OPTIONS"}, handler |-> "OptionsNoop"],
       [tpl |-> <<"api", "v1", "payment-intents">>,
        methods |-> {"POST"}, handler |-> "CreatePaymentIntent"],
       [tpl |-> <<"api", "v1", "payment-intents", "{id}", "confirm">>,
        methods |-> {"POST"}, handler |-> "ConfirmPaymentIntent"],
       [tpl |-> <<"api", "v1", "products">>,
        methods |-> {"POST"}, handler |-> "CreateProduct"],
       [tpl |-> <<"api", "v1", "prices">>,
        methods |-> {"POST"}, handler |-> "CreatePrice"],
       [tpl |-> <<"api", "v1", "subscriptions">>,
        methods |-> {"POST"}, handler |-> "CreateSubscription"],
       [tpl |-> <<"api", "v1", "subscriptions", "{id}">>,
        methods |-> {"DELETE"}, handler |-> "CancelSubscription"] >>

ResourceHandlers ==
    {"HealthCheck", "CreateCustomer", "ListCustomers", "GetCustomer",
     "CreatePaymentIntent", "ConfirmPaymentIntent", "CreateProduct",
     "CreatePrice", "CreateSubscription", "CancelSubscription"}

\* mux path matcher: literal segments must be equal, a {id} variable matches
\* one non-empty segment ([^/]+); the whole path must match (no strict slash).
PathMatches(tpl, path) ==
    /\ Len(tpl) = Len(path)
    /\ \A i \in 1..Len(tpl) :
        IF tpl[i] = "{id}" THEN path[i] # "" ELSE tpl[i] = path[i]

\* A route match that ignores the Methods(...) matcher.
RouteMatches_AnyMethod(rt, method, path) ==
    PathMatches(rt.tpl, path)

RouteMatches(rt, method, path) ==
    PathMatches(rt.tpl, path) /\ method \in rt.methods

\* mux.Vars of a matched route.
RouteVars(rt, path) ==
    IF \E i \in 1..Len(rt.tpl) : rt.tpl[i] = "{id}"
    THEN [id |-> path[CHOOSE i \in 1..Len(rt.tpl) : rt.tpl[i] = "{id}"]]
    ELSE [id |-> ""]

\* Index of the first matching route, 0 when none matches.
MatchIndex(method, path) ==
    IF \E i \in 1..Len(Routes) : RouteMatches(Routes[i], method, path)
    THEN CHOOSE i \in 1..Len(Routes) :
            /\ RouteMatches(Routes[i], method, path)
            /\ \A j \in 1..(i - 1) : ~RouteMatches(Routes[j], method, path)
    ELSE 0

\* Some route has this path, under another method.
MethodMismatch(method, path) ==
    /\ MatchIndex(method, path) = 0
    /\ \E i \in 1..Len(Routes) : PathMatches(Routes[i].tpl, path)

\* mux.Router.ServeHTTP redirects a path that is not in canonical form
\* (empty inner segment, dot segments) before any matching.
IsCleanPath(path) ==
    /\ \A i \in 1..Len(path) : path[i] \notin {".", ".."}
    /\ \A i \in 1..(Len(path) - 1) : path[i] # ""

\* Status of a request that matches no route.  A method mismatch is answered
\* 405; router releases that reset the mismatch while they scan the later
\* routes of a subrouter answer 404 instead.
UnmatchedStatus(method, path) ==
    IF MethodMismatch(method, path)
    THEN {StatusMethodNotAllowed, StatusNotFound}
    ELSE {StatusNotFound}

\* ------------------------------------------------------------- responses
NoHeaders ==
    [allowOrigin |-> "", allowMethods |-> "", allowHeaders |-> "",
     contentType |-> "", location |-> ""]

\* The fields of models.Customer besides the ID; a time is the second it
\* denotes, a metadata map the set of its entries.
NoFields ==
    [email |-> "", name |-> "", phone |-> "", description |-> "",
     metadata |-> {}, createdAt |-> 0, updatedAt |-> 0]

NilResource ==
    [kind |-> "nil", id |-> "", items |-> <<>>, hasMore |-> FALSE,
     nextCursor |-> "", fields |-> NoFields]
Resource(k, i) ==
    [kind |-> k, id |-> i, items |-> <<>>, hasMore |-> FALSE,
     nextCursor |-> "", fields |-> NoFields]

NoBodyOut == [kind |-> "none", msg |-> "", data |-> NilResource]
ErrorBody(m) == [kind |-> "error", msg |-> m, data |-> NilResource]
JSONBody(d) == [kind |-> "json", msg |-> "", data |-> d]
TextBody(m) == [kind |-> "text", msg |-> m, data |-> NilResource]

\* status 0: no header written yet; writes counts the WriteHeader calls and
\* lastCode is the code of the latest one.  body is the value handed to the
\* JSON encoder; encodeLogged tells that encoding it to the client failed
\* and the failure was logged.
NoResponse ==
    [status |-> 0, writes |-> 0, lastCode |-> 0, headers |-> NoHeaders,
     body |-> NoBodyOut, encodeLogged |-> FALSE]

\* http.ResponseWriter.WriteHeader: only the first call sets the status.
WriteHeader(r, code) ==
    [r EXCEPT !.status = IF r.status = 0 THEN code ELSE r.status,
              !.writes = r.writes + 1,
              !.lastCode = code]

\* writeJSON that ignores the status it is given.
writeJSON_AlwaysOK(r, status, data) ==
    LET h == [r EXCEPT !.headers.contentType = "application/json"]
        w == WriteHeader(h, StatusOK)
    IN [w EXCEPT !.body = JSONBody(data)]

\* writeJSON: content type, status, then the encoded data.
writeJSON(r, status, data) ==
    LET h == [r EXCEPT !.headers.contentType = "application/json"]
        w == WriteHeader(h, status)
    IN [w EXCEPT !.body = JSONBody(data)]

\* writeError: content type, status, then {"error": message}.
writeError(r, status, message) ==
    LET h == [r EXCEPT !.headers.contentType = "application/json"]
        w == WriteHeader(h, status)
    IN [w EXCEPT !.body = ErrorBody(message)]

\* An encoding failure answered with a second response, a 500.
EncodeFails_SecondResponse(r) ==
    WriteHeader([r EXCEPT !.encodeLogged = TRUE], StatusInternalServerError)

\* json.Encoder.Encode failed in writeJSON or writeError, after the header
\* was written: the failure is logged and nothing else is done.
EncodeFails(r) ==
    [r EXCEPT !.encodeLogged = TRUE]

\* handleServiceError that puts the cause into the response.
handleServiceError_LeakCause(r, err, operation) ==
    writeError(r, StatusInternalServerError,
               "Failed to " \o operation \o ": " \o err)

\* handleServiceError: logs the error and answers 500 "Failed to <operation>".
handleServiceError(r, err, operation) ==
    writeError(r, StatusInternalServerError, "Failed to " \o operation)

\* corsMiddleware's three headers.
SetCORS(r) ==
    [r EXCEPT !.headers.allowOrigin = "*",
              !.headers.allowMethods = "GET, POST, PUT, DELETE, OPTIONS",
              !.headers.allowHeaders = "Content-Type, Authorization"]

\* err is the message of the adapter's error ("" for nil) and cause the
\* error it wraps.
NoResult == [res |-> NilResource, err |-> "", cause |-> ""]
NoVars == [id |-> ""]
NoRequest == [method |-> "", path |-> <<>>]

\* ------------------------------------------------------------- provider
CustomerID(i) == "cus_" \o ToString(i)

\* The ids of the provider's customers in list order.
ProviderCustomers == [i \in 1..NumCustomers |-> CustomerID(i)]

Cursors ==
    {""} \cup {CustomerID(i) : i \in 1..NumCustomers} \cup {"cus_unknown"}

KnownCursor(c) == \E i \in 1..NumCustomers : CustomerID(i) = c
CursorPos(c) ==
    IF c = "" THEN 0 ELSE CHOOSE i \in 1..NumCustomers : CustomerID(i) = c

Min(a, b) == IF a < b THEN a ELSE b

\* One list call of the provider: up to limit customers after the cursor and
\* whether more remain; an unknown cursor is rejected.
ProviderList(limit, startingAfter) ==
    IF startingAfter # "" /\ ~KnownCursor(startingAfter)
    THEN [err |-> "No such customer: 'x'", data |-> <<>>, hasMore |-> FALSE]
    ELSE LET start == CursorPos(startingAfter)
             n == Min(limit, NumCustomers - start)
         IN [err |-> "",
             data |-> [i \in 1..n |-> ProviderCustomers[start + i]],
             hasMore |-> start + limit < NumCustomers]

\* What the provider can return for a single-object call: nil, or an object
\* whose nested references are present or missing.
\* The fields of a provider customer that the converter reads: one with
\* only the required ones, one with all of them.
SparseCustomer ==
    [email |-> "a@b.com", name |-> "Ann", phone |-> "", description |-> "",
     metadata |-> {}, created |-> 0]
FullCustomer ==
    [email |-> "a@b.com", name |-> "Ann", phone |-> "+100",
     description |-> "vip", metadata |-> {<<"tier", "gold">>},
     created |-> 1700000000]
CustomerData == {SparseCustomer, FullCustomer}

ProviderObjects ==
    [nil : BOOLEAN, hasProduct : BOOLEAN, hasCustomer : BOOLEAN,
     numItems : 0..1, cust : CustomerData]

GoodObject ==
    [nil |-> FALSE, hasProduct |-> TRUE, hasCustomer |-> TRUE, numItems |-> 1,
     cust |-> SparseCustomer]

\* The objects the provider can return for a resource kind: only the
\* references the converter of that kind reads vary.
ObjectsOf(kind) ==
    {o \in ProviderObjects :
        /\ kind # "price" => o.hasProduct
        /\ kind # "subscription" => (o.hasCustomer /\ o.numItems = 1)
        /\ kind # "customer" => o.cust = SparseCustomer
        /\ o.nil => (/\ o.hasProduct /\ o.hasCustomer /\ o.numItems = 1
                     /\ o.cust = SparseCustomer)}

\* ------------------------------------------------------------- adapter
\* The five converters: nil for a nil object; convertStripePrice reads
\* Product.ID and convertStripeSubscription reads Customer.ID and
\* Items.Data[0] without a nil check, which panics when they are missing.
ConvertPanics(kind, o) ==
    /\ ~o.nil
    /\ \/ kind = "price" /\ ~o.hasProduct
       \/ kind = "subscription" /\ (~o.hasCustomer \/ o.numItems = 0)

\* A converter whose customer has an update time of its own.
convertStripeCustomerInterface_OwnUpdatedAt(id, c) ==
    [Resource("customer", id) EXCEPT
        !.fields = [email |-> c.email, name |-> c.name, phone |-> c.phone,
                    description |-> c.description, metadata |-> c.metadata,
                    createdAt |-> c.created, updatedAt |-> c.created + 1]]

\* convertStripeCustomerInterface: every field is copied, and the creation
\* second is used for both times.
convertStripeCustomerInterface(id, c) ==
    [Resource("customer", id) EXCEPT
        !.fields = [email |-> c.email, name |-> c.name, phone |-> c.phone,
                    description |-> c.description, metadata |-> c.metadata,
                    createdAt |-> c.created, updatedAt |-> c.created]]

\* Converters that substitute a zero-value model for a nil object.
Convert_ZeroValue(kind, id, o) ==
    IF o.nil THEN Resource(kind, "")
    ELSE IF kind = "customer" THEN convertStripeCustomerInterface(id, o.cust)
    ELSE Resource(kind, id)

Convert(kind, id, o) ==
    IF o.nil THEN NilResource
    ELSE IF kind = "customer" THEN convertStripeCustomerInterface(id, o.cust)
    ELSE Resource(kind, id)

\* The request fields an adapter method copies into the parameters of its
\* provider call, under the request's key names; Abs is a parameter that is
\* left unset.  A field guarded by != "" is set only when it is not empty.
Opt(v) == IF v.s # "" THEN v ELSE Abs

ProviderParams(method, r) ==
    [k \in Keys |->
        CASE method = "CreateCustomer" ->
                IF k \in {"email", "name", "description"} THEN r[k]
                ELSE IF k = "phone" THEN Opt(r[k]) ELSE Abs
          [] method = "CreatePaymentIntent" ->
                IF k \in {"amount", "currency"} THEN r[k]
                ELSE IF k \in {"customer_id", "description",
                               "payment_method_id", "confirmation_method"}
                THEN Opt(r[k]) ELSE Abs
          [] method = "ConfirmPaymentIntent" ->
                IF k \in {"payment_method_id", "return_url"}
                THEN Opt(r[k]) ELSE Abs
          [] method = "CreateProduct" ->
                IF k \in {"name", "description", "active"} THEN r[k] ELSE Abs
          [] method = "CreatePrice" ->
                IF k \in {"product_id", "unit_amount", "currency", "active"}
                THEN r[k]
                ELSE IF k = "recurring_interval"
                        /\ r["type"].s = "recurring"
                        /\ r["recurring_interval"].s # ""
                THEN r[k] ELSE Abs
          [] method = "CreateSubscription" ->
                IF k \in {"customer_id", "price_id"} THEN r[k] ELSE Abs
          [] OTHER -> Abs]

\* An adapter that does not hand its context to the get-customer call.
PassesContext_NotOnGet(method) == method # "GetCustomer"

\* params.Context = ctx: the adapter method hands its context to the
\* provider call.
PassesContext(method) == TRUE

\* The error of one provider call: a call that carries a context which is
\* cancelled before the provider answers is aborted with the context's
\* error; otherwise the provider's own answer stands.
ProviderCallError(withCtx, cancelled, perr) ==
    IF withCtx /\ cancelled THEN ContextCanceled ELSE perr

\* An adapter method that formats the cause into the message with %v.
AdapterReturn_NoWrap(operation, kind, id, perr, o) ==
    IF perr # ""
    THEN [res |-> NilResource, err |-> "failed to " \o operation \o ": " \o perr,
          cause |-> "", panic |-> FALSE]
    ELSE [res |-> Convert(kind, id, o), err |-> "", cause |-> "",
          panic |-> ConvertPanics(kind, o)]

\* An adapter method around one provider call: a provider error is wrapped
\* (%w) as "failed to <operation>: <cause>", otherwise the object is
\* converted.
AdapterReturn(operation, kind, id, perr, o) ==
    IF perr # ""
    THEN [res |-> NilResource, err |-> "failed to " \o operation \o ": " \o perr,
          cause |-> perr, panic |-> FALSE]
    ELSE [res |-> Convert(kind, id, o), err |-> "", cause |-> "",
          panic |-> ConvertPanics(kind, o)]

\* A provider page that announces more entries but carries none; the
\* iterator stops on it without an error.
HasMoreNoData == "has_more without data"

\* params.Single is never set by ListCustomers.
SinglePage == FALSE

\* The list iterator of the provider client.  The first page is fetched
\* when the iterator is built; Next() hands out the entries of the page and,
\* when the page is used up, has_more is set and the iterator is not in
\* single-page mode, fetches the page after the last entry.  fail.at is the
\* number of the provider call that fails with fail.err (0: none).
RECURSIVE IterRun(_, _, _, _, _, _)
IterRun(limit, after, k, fail, acc, calls) ==
    LET page == IF k = fail.at
                THEN IF fail.err = HasMoreNoData
                     THEN [err |-> "", data |-> <<>>, hasMore |-> TRUE]
                     ELSE [err |-> fail.err, data |-> <<>>, hasMore |-> FALSE]
                ELSE ProviderList(limit, after)
        call == [api |-> "Customers.List", id |-> "", limit |-> limit,
                 startingAfter |-> after, params |-> EmptyObject,
                 ctx |-> PassesContext("ListCustomers"), err |-> page.err,
                 obj |-> GoodObject]
        all == acc \o page.data
    IN IF page.err # ""
       THEN [err |-> page.err, items |-> acc, hasMore |-> FALSE,
             calls |-> Append(calls, call)]
       ELSE IF page.hasMore /\ ~SinglePage /\ Len(page.data) > 0
       THEN IterRun(limit, page.data[Len(page.data)], k + 1, fail, all,
                    Append(calls, call))
       ELSE [err |-> "", items |-> all, hasMore |-> page.hasMore,
             calls |-> Append(calls, call)]

\* ListLimit without the default for a limit that is not positive.
ListLimit_NoDefault(reqLimit) == reqLimit

\* StripeService.ListCustomers: the page size sent to the provider.
ListLimit(reqLimit) ==
    IF reqLimit > 0 THEN reqLimit ELSE DefaultCustomerLimit

\* The ways the list calls of one request can go wrong: not at all, or at
\* call number at, with the provider's error, because the context is done,
\* or with a page that announces more entries and carries none.
NoFailure == [at |-> 0, err |-> ""]
ListFailures ==
    {NoFailure}
    \cup [at : 1..(NumCustomers + 1),
          err : {"card_declined", ContextCanceled, HasMoreNoData}]

\* A cancelled context aborts a list call only when the call carries it.
EffectiveFailure(fail) ==
    IF fail.err = ContextCanceled /\ ~PassesContext("ListCustomers")
    THEN NoFailure ELSE fail

\* Number of list calls the iterator makes when none of them fails.
ListCallCount(reqLimit, cursor) ==
    Len(IterRun(ListLimit(reqLimit), cursor, 1, NoFailure, <<>>, <<>>).calls)

\* StripeService.ListCustomers.
AdapterListCustomers(reqLimit, cursor, fail) ==
    LET it == IterRun(ListLimit(reqLimit), cursor, 1, EffectiveFailure(fail),
                      <<>>, <<>>)
    IN IF it.err # ""
       THEN [res |-> NilResource,
             err |-> "failed to list customers: " \o it.err,
             cause |-> it.err, panic |-> FALSE, calls |-> it.calls]
       ELSE [res |-> [Resource("customer_list", "") EXCEPT
                         !.items = it.items, !.hasMore = it.hasMore],
             err |-> "", cause |-> "", panic |-> FALSE, calls |-> it.calls]

\* ------------------------------------------------------------- handlers
\* extractPathParameter without the empty check.
extractPathParameter_NoCheck(value) == TRUE

\* extractPathParameter: the value is usable when it is not empty.
extractPathParameter(value) == value # ""

\* parseAndValidateJSON without the validator call.
parseAndValidateJSON_SkipValidation(shape, b) ==
    IF DecodeFails(shape, b) THEN "Invalid JSON format" ELSE ""

\* parseAndValidateJSON that drops the decode error and validates the
\* struct as it stands.
parseAndValidateJSON_IgnoreDecodeError(shape, b) ==
    IF ~ValidatorStruct(shape, Decode(shape, b))
    THEN "Validation error: " \o shape
    ELSE ""

\* parseAndValidateJSON: "" when the body decodes and validates, else the
\* message of the 400 response.
parseAndValidateJSON(shape, b) ==
    IF DecodeFails(shape, b) THEN "Invalid JSON format"
    ELSE IF ~ValidatorStruct(shape, Decode(shape, b))
    THEN "Validation error: " \o shape
    ELSE ""

\* strconv.ParseInt(limitStr, 10, 64) on the limit strings of the model.
LimitInts == (0 - 1)..MaxLimitParam \cup {MaxCustomerLimit + 1}
LimitStrs == {"", "abc"} \cup {ToString(i) : i \in LimitInts}
ParseIntOK(str) == \E i \in LimitInts : ToString(i) = str
ParseInt(str) == CHOOSE i \in LimitInts : ToString(i) = str

\* ListCustomers handler: req.Limit from the limit query parameter.
QueryLimit(limitStr) ==
    IF limitStr # "" /\ ParseIntOK(limitStr) THEN ParseInt(limitStr) ELSE 0

NoQuery == [limit |-> "", cursor |-> ""]

VARIABLES
    pc,             \* where the current request is
    entry,          \* "router": through Server.Handler(); "direct": a handler method called directly
    req,            \* method and path of the current request
    handler,        \* the handler the request was dispatched to, "" when none
    urlVars,        \* mux.Vars of the request
    body,           \* the body the request carries
    query,          \* the limit and cursor query parameters
    resp,           \* what the client's response writer has received
    wrapper,        \* responseWriterWrapper.statusCode of the logging middleware
    adapterCalls,   \* adapter methods invoked for the current request
    providerCalls,  \* provider API calls made for the current request
    result,         \* what the adapter returned
    ctxDone,        \* the request's context was cancelled during the provider call
    ran,            \* handler methods whose body ran for the current request
    logs            \* request log entries written for the current request

\* The process around the server (main).
VARIABLES
    env,            \* the environment variables of the process
    cfg,            \* the configuration main loaded
    mainPc,         \* where the main goroutine is
    lnPc,           \* where the goroutine that runs ListenAndServe is
    wired,          \* adapter, provider client, handlers and router are built
    listening,      \* the listener is open
    conns,          \* the connections of the server
    notify,         \* signal.Notify has registered the quit channel
    quit,           \* a termination signal is pending in the quit channel
    inShutdown,     \* httpServer.Shutdown has been called
    deadline,       \* the 30s shutdown context
    exitCode        \* exit status of the process once it has exited

requestVars ==
    <<pc, entry, req, handler, urlVars, body, query, resp, wrapper,
      adapterCalls, providerCalls, result, ctxDone, ran, logs>>

mainVars ==
    <<env, cfg, mainPc, lnPc, wired, listening, conns, notify, quit,
      inShutdown, deadline, exitCode>>

\* Requests handled concurrently, one goroutine each.
VARIABLES
    reqs,           \* per goroutine: its request, provider call, answer and response
    locals,         \* the local variables of the handler invocations
    components      \* the handler, validator, adapter and provider client built at startup

concVars == <<reqs, locals, components>>

vars == <<requestVars, mainVars, concVars>>

\* ---------------------------------------------------------- configuration
\* Values of the environment variables main reads; "" is an unset variable.
PortInts == {0 - 1, 0, 9090}
Environments ==
    [PORT : {"", "abc"} \cup {ToString(i) : i \in PortInts},
     HOST : {"", "0.0.0.0"},
     STRIPE_SECRET_KEY : {"", "sk_test_1"}]

\* getEnv: the variable's value, the default when it is unset or empty.
getEnv(e, key, defaultValue) ==
    IF e[key] # "" THEN e[key] ELSE defaultValue

\* strconv.Atoi on the port strings of the model.
AtoiOK(str) == \E i \in PortInts : ToString(i) = str
Atoi(str) == CHOOSE i \in PortInts : ToString(i) = str

\* getEnvAsInt that hands out the zero value when the text is not a number.
getEnvAsInt_ZeroOnError(e, key, defaultValue) ==
    IF e[key] = "" THEN defaultValue
    ELSE IF AtoiOK(e[key]) THEN Atoi(e[key]) ELSE 0

\* getEnvAsInt: the parsed value, the default when unset or not a number.
getEnvAsInt(e, key, defaultValue) ==
    IF e[key] # "" /\ AtoiOK(e[key]) THEN Atoi(e[key]) ELSE defaultValue

\* config.Load
Load(e) ==
    [port |-> getEnvAsInt(e, "PORT", DefaultPort),
     host |-> getEnv(e, "HOST", "localhost"),
     secretKey |-> getEnv(e, "STRIPE_SECRET_KEY", "")]

NoConfig == [port |-> 0, host |-> "", secretKey |-> ""]

Conns == 1..MaxConns

\* A process that has started up and serves: the listener is open, main
\* waits for a signal.
Serving ==
    /\ env = [PORT |-> "", HOST |-> "", STRIPE_SECRET_KEY |-> "sk_test_1"]
    /\ cfg = Load(env)
    /\ mainPc = "wait"
    /\ lnPc = "serving"
    /\ wired = TRUE
    /\ listening = TRUE
    /\ conns = [c \in Conns |-> "closed"]
    /\ notify = TRUE
    /\ quit = FALSE
    /\ inShutdown = FALSE
    /\ deadline = "unset"
    /\ exitCode = ExitOK

\* --------------------------------------------------- concurrent requests
Goroutines == 1..MaxInFlight

\* NewStripeService, NewStripeHandler: what every request shares.
Components(c) ==
    [validator |-> "validator.New()",
     stripeService |-> [secretKey |-> c.secretKey, client |-> "client.API"]]

NoCall == [api |-> "", id |-> "", params |-> EmptyObject, key |-> ""]
NoLocals == [id |-> "", decoded |-> EmptyObject]
NoInput == [h |-> "", id |-> "", b |-> NoBody]
IdleGoroutine ==
    [pc |-> "new", in |-> NoInput, call |-> NoCall, ans |-> "",
     out |-> NoResponse]

\* No request is in flight.
NoneInFlight ==
    /\ reqs = [i \in Goroutines |-> IdleGoroutine]
    /\ locals = [i \in Goroutines |-> NoLocals]
    /\ components = Components(Load(env))

\* No request has been received.
RequestInit ==
    /\ pc = "idle"
    /\ entry = ""
    /\ req = NoRequest
    /\ handler = ""
    /\ urlVars = NoVars
    /\ body = NoBody
    /\ query = NoQuery
    /\ resp = NoResponse
    /\ wrapper = 0
    /\ adapterCalls = <<>>
    /\ providerCalls = <<>>
    /\ result = NoResult
    /\ ctxDone = FALSE
    /\ ran = <<>>
    /\ logs = <<>>

\* The handler under test or behind a serving process: the requests of Spec
\* are followed in a process that is wired and serving and stays so.
Init ==
    /\ RequestInit
    /\ Serving
    /\ NoneInFlight

\* No request is being served.
Ready == pc = "idle"

\* State of a fresh request.
Fresh ==
    /\ body' = NoBody
    /\ query' = NoQuery
    /\ adapterCalls' = <<>>
    /\ providerCalls' = <<>>
    /\ result' = NoResult
    /\ ctxDone' = FALSE
    /\ ran' = <<>>
    /\ logs' = <<>>
    /\ wrapper' = 0

\* mux.Router.ServeHTTP: redirect a non-canonical path, else match the
\* route table; the middleware chain is built only for a matched route.
ServeHTTP ==
    /\ Ready
    /\ \E m \in HTTPMethods, p \in Paths :
        /\ req' = [method |-> m, path |-> p]
        /\ entry' = "router"
        /\ Fresh
        /\ IF ~IsCleanPath(p)
           THEN /\ resp' = WriteHeader(
                       [NoResponse EXCEPT !.headers.location = "cleaned"],
                       StatusMovedPermanently)
                /\ handler' = ""
                /\ urlVars' = NoVars
                /\ pc' = "done"
           ELSE IF MatchIndex(m, p) = 0
           THEN /\ \E st \in UnmatchedStatus(m, p) :
                    resp' = [WriteHeader(NoResponse, st) EXCEPT
                                !.body = IF st = StatusNotFound
                                         THEN TextBody("404 page not found")
                                         ELSE NoBodyOut]
                /\ handler' = ""
                /\ urlVars' = NoVars
                /\ pc' = "done"
           ELSE /\ resp' = NoResponse
                /\ handler' = Routes[MatchIndex(m, p)].handler
                /\ urlVars' = RouteVars(Routes[MatchIndex(m, p)], p)
                /\ pc' = "logging"
    /\ UNCHANGED <<mainVars, concVars>>

\* A handler method called directly with path variables set by the caller,
\* as the handler tests do.
CallHandler ==
    /\ Ready
    /\ \E h \in ResourceHandlers, id \in DirectIds :
        /\ handler' = h
        /\ urlVars' = [id |-> id]
    /\ entry' = "direct"
    /\ req' = NoRequest
    /\ resp' = NoResponse
    /\ Fresh
    /\ pc' = "handler"
    /\ UNCHANGED <<mainVars, concVars>>

\* The request is over (response sent, or the connection dropped after a
\* panic): its state is discarded.
Complete ==
    /\ pc \in {"done", "panicked"}
    /\ pc' = "idle"
    /\ entry' = ""
    /\ req' = NoRequest
    /\ handler' = ""
    /\ urlVars' = NoVars
    /\ resp' = NoResponse
    /\ Fresh
    /\ UNCHANGED <<mainVars, concVars>>

\* loggingMiddleware, before the inner chain: wrap the writer.
loggingMiddleware ==
    /\ pc = "logging"
    /\ wrapper' = StatusOK
    /\ pc' = "cors"
    /\ UNCHANGED <<entry, req, handler, urlVars, body, query, resp,
                   adapterCalls, providerCalls, result, ctxDone, ran, logs>>
    /\ UNCHANGED <<mainVars, concVars>>

\* corsMiddleware: set the three headers; answer OPTIONS itself.
corsMiddleware ==
    /\ pc = "cors"
    /\ IF req.method = "OPTIONS"
       THEN /\ resp' = WriteHeader(SetCORS(resp), StatusOK)
            /\ wrapper' = StatusOK
            /\ pc' = "logAfter"
       ELSE /\ resp' = SetCORS(resp)
            /\ wrapper' = wrapper
            /\ pc' = "handler"
    /\ UNCHANGED <<entry, req, handler, urlVars, body, query,
                   adapterCalls, providerCalls, result, ctxDone, ran, logs>>
    /\ UNCHANGED <<mainVars, concVars>>

\* loggingMiddleware, after the inner chain returned: one log entry.
loggingMiddlewareAfter ==
    /\ pc = "logAfter"
    /\ logs' = Append(logs, [method |-> req.method, path |-> req.path,
                             status |-> wrapper])
    /\ pc' = "done"
    /\ UNCHANGED <<entry, req, handler, urlVars, body, query, resp, wrapper,
                   adapterCalls, providerCalls, result, ctxDone, ran>>
    /\ UNCHANGED <<mainVars, concVars>>

\* A handler returned after writing response r with writeJSON or
\* writeError, whose encoding of the body succeeded or failed.
Return(r) ==
    /\ \E encoded \in BOOLEAN :
          resp' = IF encoded THEN r ELSE EncodeFails(r)
    /\ wrapper' = IF entry = "router" THEN r.lastCode ELSE wrapper
    /\ pc' = IF entry = "router" THEN "logAfter" ELSE "done"

\* The adapter panicked inside the handler: nothing is written and the
\* middleware does not resume.
Panicked ==
    /\ resp' = resp
    /\ wrapper' = wrapper
    /\ pc' = "panicked"

\* The handler's steps after the adapter returned out.
AfterAdapter(out, operation, okStatus) ==
    /\ result' = [res |-> out.res, err |-> out.err, cause |-> out.cause]
    /\ IF out.panic THEN Panicked
       ELSE IF out.err # ""
       THEN Return(handleServiceError(resp, out.err, operation))
       ELSE Return(writeJSON(resp, okStatus, out.res))

\* A handler that invokes no adapter method.
NoAdapter ==
    /\ adapterCalls' = adapterCalls
    /\ providerCalls' = providerCalls
    /\ result' = result
    /\ ctxDone' = ctxDone

\* One adapter method making one provider call.
InvokeAdapter(method, api, operation, kind, id, decoded, newId, okStatus) ==
    \E perr \in {""} \cup ProviderErrors, o \in ObjectsOf(kind),
       cancelled \in BOOLEAN :
        /\ adapterCalls' = Append(adapterCalls,
                [method |-> method, id |-> id, req |-> decoded])
        /\ providerCalls' = Append(providerCalls,
                [api |-> api, id |-> id, limit |-> 0, startingAfter |-> "",
                 params |-> ProviderParams(method, decoded),
                 ctx |-> PassesContext(method),
                 err |-> ProviderCallError(PassesContext(method), cancelled,
                                           perr),
                 obj |-> o])
        /\ ctxDone' = cancelled
        /\ AfterAdapter(
              AdapterReturn(operation, kind, newId,
                  ProviderCallError(PassesContext(method), cancelled, perr),
                  o),
              operation, okStatus)

\* The five create handlers: parse and validate the body, call the adapter.
CreateHandler(h, shape, api, operation, kind, newId) ==
    /\ pc = "handler" /\ handler = h
    /\ ran' = Append(ran, h)
    /\ \E b \in Bodies :
        /\ body' = b
        /\ IF parseAndValidateJSON(shape, b) # ""
           THEN /\ Return(writeError(resp, StatusBadRequest,
                                     parseAndValidateJSON(shape, b)))
                /\ NoAdapter
           ELSE InvokeAdapter(h, api, operation, kind, "", Decode(shape, b),
                              newId, StatusCreated)
    /\ UNCHANGED <<entry, req, handler, urlVars, query, logs>>
    /\ UNCHANGED <<mainVars, concVars>>

\* The handlers that take the id path parameter and no body.
IdHandler(h, api, operation, kind) ==
    /\ pc = "handler" /\ handler = h
    /\ ran' = Append(ran, h)
    /\ IF ~extractPathParameter(urlVars.id)
       THEN /\ Return(writeError(resp, StatusBadRequest,
                                 "Missing or empty id parameter"))
            /\ NoAdapter
       ELSE InvokeAdapter(h, api, operation, kind, urlVars.id, EmptyObject,
                          urlVars.id, StatusOK)
    /\ UNCHANGED <<entry, req, handler, urlVars, body, query, logs>>
    /\ UNCHANGED <<mainVars, concVars>>

\* A health check that asks the provider and reports its failure.
HealthCheck_ProviderPing ==
    /\ pc = "handler" /\ handler = "HealthCheck"
    /\ ran' = Append(ran, "HealthCheck")
    /\ \E perr \in {""} \cup ProviderErrors :
        IF perr # ""
        THEN Return(writeError(resp, StatusInternalServerError, "unhealthy"))
        ELSE Return(writeJSON(resp, StatusOK,
                              Resource("health", "stripe-service")))
    /\ NoAdapter
    /\ UNCHANGED <<entry, req, handler, urlVars, body, query, logs>>
    /\ UNCHANGED <<mainVars, concVars>>

\* HealthCheck: the fixed payload, status "healthy" of service
\* "stripe-service", as the resource of kind "health".
HealthCheck ==
    /\ pc = "handler" /\ handler = "HealthCheck"
    /\ ran' = Append(ran, "HealthCheck")
    /\ Return(writeJSON(resp, StatusOK, Resource("health", "stripe-service")))
    /\ NoAdapter
    /\ UNCHANGED <<entry, req, handler, urlVars, body, query, logs>>
    /\ UNCHANGED <<mainVars, concVars>>

CreateCustomer ==
    CreateHandler("CreateCustomer", "CreateCustomerRequest", "Customers.New",
                  "create customer", "customer", "cus_new")

GetCustomer ==
    IdHandler("GetCustomer", "Customers.Get", "get customer", "customer")

ListCustomers ==
    /\ pc = "handler" /\ handler = "ListCustomers"
    /\ ran' = Append(ran, "ListCustomers")
    /\ \E l \in LimitStrs, c \in Cursors, fail \in ListFailures :
        LET out == AdapterListCustomers(QueryLimit(l), c, fail)
        IN /\ query' = [limit |-> l, cursor |-> c]
           /\ ctxDone' = (/\ fail.err = ContextCanceled
                          /\ fail.at <= ListCallCount(QueryLimit(l), c))
           /\ adapterCalls' = Append(adapterCalls,
                    [method |-> "ListCustomers", id |-> "",
                     req |-> EmptyObject])
           /\ providerCalls' = providerCalls \o out.calls
           /\ AfterAdapter(out, "list customers", StatusOK)
    /\ UNCHANGED <<entry, req, handler, urlVars, body, logs>>
    /\ UNCHANGED <<mainVars, concVars>>

CreatePaymentIntent ==
    CreateHandler("CreatePaymentIntent", "CreatePaymentIntentRequest",
                  "PaymentIntents.New", "create payment intent",
                  "payment_intent", "pi_new")

ConfirmPaymentIntent ==
    /\ pc = "handler" /\ handler = "ConfirmPaymentIntent"
    /\ ran' = Append(ran, "ConfirmPaymentIntent")
    /\ \E b \in Bodies :
        /\ body' = b
        /\ IF ~extractPathParameter(urlVars.id)
           THEN /\ Return(writeError(resp, StatusBadRequest,
                                     "Missing or empty id parameter"))
                /\ NoAdapter
           ELSE IF parseAndValidateJSON("ConfirmPaymentIntentRequest", b) # ""
           THEN /\ Return(writeError(resp, StatusBadRequest,
                    parseAndValidateJSON("ConfirmPaymentIntentRequest", b)))
                /\ NoAdapter
           ELSE InvokeAdapter("ConfirmPaymentIntent", "PaymentIntents.Confirm",
                    "confirm payment intent", "payment_intent", urlVars.id,
                    Decode("ConfirmPaymentIntentRequest", b), urlVars.id,
                    StatusOK)
    /\ UNCHANGED <<entry, req, handler, urlVars, query, logs>>
    /\ UNCHANGED <<mainVars, concVars>>

CreateProduct ==
    CreateHandler("CreateProduct", "CreateProductRequest", "Products.New",
                  "create product", "product", "prod_new")

CreatePrice ==
    CreateHandler("CreatePrice", "CreatePriceRequest", "Prices.New",
                  "create price", "price", "price_new")

CreateSubscription ==
    CreateHandler("CreateSubscription", "CreateSubscriptionRequest",
                  "Subscriptions.New", "create subscription", "subscription",
                  "sub_new")

CancelSubscription ==
    IdHandler("CancelSubscription", "Subscriptions.Cancel",
              "cancel subscription", "subscription")

Next ==
    \/ ServeHTTP
    \/ CallHandler
    \/ Complete
    \/ loggingMiddleware
    \/ corsMiddleware
    \/ loggingMiddlewareAfter
    \/ HealthCheck
    \/ CreateCustomer
    \/ GetCustomer
    \/ ListCustomers
    \/ CreatePaymentIntent
    \/ ConfirmPaymentIntent
    \/ CreateProduct
    \/ CreatePrice
    \/ CreateSubscription
    \/ CancelSubscription

Spec == Init /\ [][Next]_vars

TypeOK ==
    /\ pc \in {"idle", "logging", "cors", "handler", "logAfter", "done",
               "panicked"}
    /\ entry \in {"", "router", "direct"}
    /\ handler \in ResourceHandlers \cup {"", "OptionsNoop"}
    /\ resp.status \in {0, StatusOK, StatusCreated, StatusMovedPermanently,
                        StatusBadRequest, StatusNotFound,
                        StatusMethodNotAllowed, StatusInternalServerError}

\* ================================================================== main
\* The process from its start to its exit.  A connection is closed, active
\* (a request on it is being handled) or idle (kept alive between requests).
MainInit ==
    /\ RequestInit
    /\ env \in Environments
    /\ cfg = NoConfig
    /\ mainPc = "load"
    /\ lnPc = "none"
    /\ wired = FALSE
    /\ listening = FALSE
    /\ conns = [c \in Conns |-> "closed"]
    /\ notify = FALSE
    /\ quit = FALSE
    /\ inShutdown = FALSE
    /\ deadline = "unset"
    /\ exitCode = ExitOK
    /\ NoneInFlight

Running == mainPc # "exited"

\* log.Fatal / log.Fatalf: os.Exit(1) ends the whole process at once.
Fatal ==
    /\ mainPc' = "exited"
    /\ exitCode' = ExitFatal

\* cfg := config.Load()
LoadConfig ==
    /\ mainPc = "load"
    /\ cfg' = Load(env)
    /\ mainPc' = "validate"
    /\ UNCHANGED <<env, lnPc, wired, listening, conns, notify, quit,
                   inShutdown, deadline, exitCode>>
    /\ UNCHANGED <<requestVars, concVars>>

\* A configuration check that accepts every key.
SecretKeyMissing_Never(c) == FALSE

\* cfg.Stripe.SecretKey == ""
SecretKeyMissing(c) == c.secretKey = ""

\* main's check of the required configuration.
ValidateConfig ==
    /\ mainPc = "validate"
    /\ IF SecretKeyMissing(cfg)
       THEN Fatal
       ELSE /\ mainPc' = "wire"
            /\ exitCode' = exitCode
    /\ UNCHANGED <<env, cfg, lnPc, wired, listening, conns, notify, quit,
                   inShutdown, deadline>>
    /\ UNCHANGED <<requestVars, concVars>>

\* NewStripeService (adapter and its provider client), NewStripeHandler,
\* NewServer and the http.Server value.
Wire ==
    /\ mainPc = "wire"
    /\ wired' = TRUE
    /\ mainPc' = "spawn"
    /\ UNCHANGED <<env, cfg, lnPc, listening, conns, notify, quit,
                   inShutdown, deadline, exitCode>>
    /\ UNCHANGED <<requestVars, concVars>>

\* go func() { ... ListenAndServe ... }()
StartListener ==
    /\ mainPc = "spawn"
    /\ lnPc' = "start"
    /\ mainPc' = "notify"
    /\ UNCHANGED <<env, cfg, wired, listening, conns, notify, quit,
                   inShutdown, deadline, exitCode>>
    /\ UNCHANGED <<requestVars, concVars>>

\* quit := make(chan os.Signal, 1); signal.Notify(quit, SIGINT, SIGTERM)
NotifySignals ==
    /\ mainPc = "notify"
    /\ notify' = TRUE
    /\ mainPc' = "wait"
    /\ UNCHANGED <<env, cfg, lnPc, wired, listening, conns, quit,
                   inShutdown, deadline, exitCode>>
    /\ UNCHANGED <<requestVars, concVars>>

\* The error ListenAndServe returns after an orderly close; any other one
\* is a failure of the listener (the address cannot be bound, accepting
\* fails for good).
ErrServerClosed == "http: Server closed"

\* A listener goroutine that treats every return of ListenAndServe as an
\* orderly close.
ListenErrorIsFatal_Never(err) == FALSE

\* err != nil && err != http.ErrServerClosed
ListenErrorIsFatal(err) == err # "" /\ err # ErrServerClosed

\* ListenAndServe returned err to the listener goroutine.
ListenerReturns(err) ==
    /\ lnPc' = "returned"
    /\ listening' = FALSE
    /\ IF ListenErrorIsFatal(err) THEN Fatal
       ELSE UNCHANGED <<mainPc, exitCode>>

\* httpServer.ListenAndServe in its goroutine: ErrServerClosed when the
\* server is already shut down, else the listener opens or fails to; any
\* other error than ErrServerClosed is fatal.
ListenAndServe ==
    /\ Running
    /\ lnPc = "start"
    /\ IF inShutdown
       THEN ListenerReturns(ErrServerClosed)
       ELSE \E ok \in BOOLEAN :
            IF ok
            THEN /\ listening' = TRUE
                 /\ lnPc' = "serving"
                 /\ UNCHANGED <<mainPc, exitCode>>
            ELSE ListenerReturns("bind: address already in use")
    /\ UNCHANGED <<env, cfg, wired, conns, notify, quit, inShutdown,
                   deadline>>
    /\ UNCHANGED <<requestVars, concVars>>

\* The accept loop of a serving listener fails for good: ListenAndServe
\* returns the error.
ServeFails ==
    /\ Running
    /\ lnPc = "serving"
    /\ ~inShutdown
    /\ ListenerReturns("accept failed")
    /\ UNCHANGED <<env, cfg, wired, conns, notify, quit, inShutdown,
                   deadline>>
    /\ UNCHANGED <<requestVars, concVars>>

\* The listener accepts a connection and its first request is handled.
Accept ==
    /\ Running
    /\ listening
    /\ \E c \in Conns :
        /\ conns[c] = "closed"
        /\ conns' = [conns EXCEPT ![c] = "active"]
    /\ UNCHANGED <<env, cfg, mainPc, lnPc, wired, listening, notify, quit,
                   inShutdown, deadline, exitCode>>
    /\ UNCHANGED <<requestVars, concVars>>

\* A kept-alive connection carries its next request.
NextRequest ==
    /\ Running
    /\ ~inShutdown
    /\ \E c \in Conns :
        /\ conns[c] = "idle"
        /\ conns' = [conns EXCEPT ![c] = "active"]
    /\ UNCHANGED <<env, cfg, mainPc, lnPc, wired, listening, notify, quit,
                   inShutdown, deadline, exitCode>>
    /\ UNCHANGED <<requestVars, concVars>>

\* The handler of a connection's request returns: the connection is kept
\* alive, or closed when the server is shutting down.
FinishRequest ==
    /\ Running
    /\ \E c \in Conns :
        /\ conns[c] = "active"
        /\ conns' = [conns EXCEPT
                        ![c] = IF inShutdown THEN "closed" ELSE "idle"]
    /\ UNCHANGED <<env, cfg, mainPc, lnPc, wired, listening, notify, quit,
                   inShutdown, deadline, exitCode>>
    /\ UNCHANGED <<requestVars, concVars>>

\* An idle connection is closed by its client or by IdleTimeout.
CloseIdle ==
    /\ Running
    /\ \E c \in Conns :
        /\ conns[c] = "idle"
        /\ conns' = [conns EXCEPT ![c] = "closed"]
    /\ UNCHANGED <<env, cfg, mainPc, lnPc, wired, listening, notify, quit,
                   inShutdown, deadline, exitCode>>
    /\ UNCHANGED <<requestVars, concVars>>

\* SIGINT or SIGTERM is delivered to the quit channel (capacity 1).
Signal ==
    /\ Running
    /\ notify
    /\ ~quit
    /\ ~inShutdown
    /\ quit' = TRUE
    /\ UNCHANGED <<env, cfg, mainPc, lnPc, wired, listening, conns, notify,
                   inShutdown, deadline, exitCode>>
    /\ UNCHANGED <<requestVars, concVars>>

\* <-quit, context.WithTimeout(30s) and the start of httpServer.Shutdown:
\* the listener and the idle connections are closed, ListenAndServe returns
\* ErrServerClosed.
BeginShutdown ==
    /\ mainPc = "wait"
    /\ quit
    /\ quit' = FALSE
    /\ inShutdown' = TRUE
    /\ listening' = FALSE
    /\ lnPc' = IF lnPc = "serving" THEN "returned" ELSE lnPc
    /\ conns' = [c \in Conns |->
                    IF conns[c] = "idle" THEN "closed" ELSE conns[c]]
    /\ deadline' = "running"
    /\ mainPc' = "shutdown"
    /\ UNCHANGED <<env, cfg, wired, notify, exitCode>>
    /\ UNCHANGED <<requestVars, concVars>>

\* An exit status that ignores the error of Shutdown.
ExitStatus_AlwaysOK(shutdownErr) == ExitOK

\* if err := httpServer.Shutdown(ctx); err != nil { log.Fatalf } ; main
\* returns otherwise.
ExitStatus(shutdownErr) ==
    IF shutdownErr # "" THEN ExitFatal ELSE ExitOK

\* Shutdown returns nil: no connection is active any more.
ShutdownComplete ==
    /\ mainPc = "shutdown"
    /\ deadline = "running"
    /\ \A c \in Conns : conns[c] = "closed"
    /\ mainPc' = "exited"
    /\ exitCode' = ExitStatus("")
    /\ UNCHANGED <<env, cfg, lnPc, wired, listening, conns, notify, quit,
                   inShutdown, deadline>>
    /\ UNCHANGED <<requestVars, concVars>>

\* The shutdown context expires while a connection is still active:
\* Shutdown returns the context's error.
ShutdownDeadline ==
    /\ mainPc = "shutdown"
    /\ deadline = "running"
    /\ \E c \in Conns : conns[c] = "active"
    /\ deadline' = "expired"
    /\ mainPc' = "exited"
    /\ exitCode' = ExitStatus("context deadline exceeded")
    /\ UNCHANGED <<env, cfg, lnPc, wired, listening, conns, notify, quit,
                   inShutdown>>
    /\ UNCHANGED <<requestVars, concVars>>

MainNext ==
    \/ LoadConfig
    \/ ValidateConfig
    \/ Wire
    \/ StartListener
    \/ NotifySignals
    \/ ListenAndServe
    \/ Accept
    \/ NextRequest
    \/ FinishRequest
    \/ CloseIdle
    \/ ServeFails
    \/ Signal
    \/ BeginShutdown
    \/ ShutdownComplete
    \/ ShutdownDeadline

\* The main goroutine and the listener goroutine are scheduled and the
\* timer of the shutdown context fires; nothing is assumed about clients,
\* requests or signals.
MainFairness ==
    /\ WF_vars(ListenAndServe)
    /\ WF_vars(LoadConfig)
    /\ WF_vars(ValidateConfig)
    /\ WF_vars(BeginShutdown)
    /\ WF_vars(ShutdownComplete)
    /\ WF_vars(ShutdownDeadline)

MainSpec == MainInit /\ [][MainNext]_vars /\ MainFairness

MainTypeOK ==
    /\ mainPc \in {"load", "validate", "wire", "spawn", "notify", "wait",
                    "shutdown", "exited"}
    /\ lnPc \in {"none", "start", "serving", "returned"}
    /\ conns \in [Conns -> {"closed", "active", "idle"}]
    /\ deadline \in {"unset", "running", "expired"}
    /\ exitCode \in {ExitOK, ExitFatal}

\* ==================================================== concurrent requests
\* What the handler of each endpoint that calls the adapter is made of.
Endpoint(h) ==
    CASE h = "CreateCustomer" ->
            [shape |-> "CreateCustomerRequest", needsId |-> FALSE,
             api |-> "Customers.New", operation |-> "create customer",
             kind |-> "customer", newId |-> "cus_new", ok |-> StatusCreated]
      [] h = "GetCustomer" ->
            [shape |-> "", needsId |-> TRUE,
             api |-> "Customers.Get", operation |-> "get customer",
             kind |-> "customer", newId |-> "", ok |-> StatusOK]
      [] h = "CreatePaymentIntent" ->
            [shape |-> "CreatePaymentIntentRequest", needsId |-> FALSE,
             api |-> "PaymentIntents.New",
             operation |-> "create payment intent",
             kind |-> "payment_intent", newId |-> "pi_new",
             ok |-> StatusCreated]
      [] h = "ConfirmPaymentIntent" ->
            [shape |-> "ConfirmPaymentIntentRequest", needsId |-> TRUE,
             api |-> "PaymentIntents.Confirm",
             operation |-> "confirm payment intent",
             kind |-> "payment_intent", newId |-> "", ok |-> StatusOK]
      [] h = "CreateProduct" ->
            [shape |-> "CreateProductRequest", needsId |-> FALSE,
             api |-> "Products.New", operation |-> "create product",
             kind |-> "product", newId |-> "prod_new", ok |-> StatusCreated]
      [] h = "CreatePrice" ->
            [shape |-> "CreatePriceRequest", needsId |-> FALSE,
             api |-> "Prices.New", operation |-> "create price",
             kind |-> "price", newId |-> "price_new", ok |-> StatusCreated]
      [] h = "CreateSubscription" ->
            [shape |-> "CreateSubscriptionRequest", needsId |-> FALSE,
             api |-> "Subscriptions.New",
             operation |-> "create subscription",
             kind |-> "subscription", newId |-> "sub_new",
             ok |-> StatusCreated]
      [] h = "CancelSubscription" ->
            [shape |-> "", needsId |-> TRUE,
             api |-> "Subscriptions.Cancel",
             operation |-> "cancel subscription",
             kind |-> "subscription", newId |-> "", ok |-> StatusOK]

\* The message of the handler's 400 response, "" when the input passes:
\* the path parameter is checked before the body.
Rejection(h, id, b) ==
    IF Endpoint(h).needsId /\ ~extractPathParameter(id)
    THEN "Missing or empty id parameter"
    ELSE IF Endpoint(h).shape # ""
    THEN parseAndValidateJSON(Endpoint(h).shape, b)
    ELSE ""

\* The response of a request that came through the middleware, given the
\* id the provider was asked about and the provider's answer.
Respond(h, id, b, perr) ==
    IF h = "HealthCheck"
    THEN writeJSON(SetCORS(NoResponse), StatusOK,
                   Resource("health", "stripe-service"))
    ELSE IF Rejection(h, id, b) # ""
    THEN writeError(SetCORS(NoResponse), StatusBadRequest,
                    Rejection(h, id, b))
    ELSE LET ep == Endpoint(h)
             out == AdapterReturn(ep.operation, ep.kind,
                        IF ep.needsId THEN id ELSE ep.newId, perr, GoodObject)
         IN IF out.err # ""
            THEN handleServiceError(SetCORS(NoResponse), out.err,
                                    ep.operation)
            ELSE writeJSON(SetCORS(NoResponse), ep.ok, out.res)

\* Requests sent while others are in flight.
ConcurrentRequests ==
    {[h |-> "HealthCheck", id |-> "", b |-> NoBody],
     [h |-> "GetCustomer", id |-> "cus_1", b |-> NoBody],
     [h |-> "GetCustomer", id |-> "cus_2", b |-> NoBody],
     [h |-> "CancelSubscription", id |-> "sub_1", b |-> NoBody],
     [h |-> "CreateCustomer", id |-> "",
      b |-> ObjBody([EmptyObject EXCEPT !["email"] = Str("a@b.com"),
                                        !["name"] = Str("A")])],
     [h |-> "CreateCustomer", id |-> "",
      b |-> ObjBody([EmptyObject EXCEPT !["email"] = Str("a@b.com")])],
     [h |-> "CreatePrice", id |-> "",
      b |-> ObjBody([EmptyObject EXCEPT !["product_id"] = Str("prod_1"),
                                        !["unit_amount"] = Num(100),
                                        !["currency"] = Str("usd"),
                                        !["type"] = Str("recurring"),
                                        !["recurring_interval"] = Str("month")])],
     [h |-> "ConfirmPaymentIntent", id |-> "pi_1",
      b |-> ObjBody([EmptyObject EXCEPT !["payment_method_id"] = Str("pm_1")])]}

ConcInit ==
    /\ RequestInit
    /\ Serving
    /\ NoneInFlight

\* Handler invocations that keep the id and the decoded request in one
\* place shared by all of them.
LocalsOf_Shared(i) == 1

\* customerID and var req are local variables of the handler invocation:
\* each goroutine has its own.
LocalsOf(i) == i

\* A request arrives and its goroutine runs the middleware and the handler
\* up to the adapter call: health and rejected input are answered at once.
Arrive ==
    \E i \in Goroutines, in \in ConcurrentRequests :
        /\ reqs[i].pc = "new"
        /\ IF in.h = "HealthCheck" \/ Rejection(in.h, in.id, in.b) # ""
           THEN /\ reqs' = [reqs EXCEPT ![i] =
                              [IdleGoroutine EXCEPT
                                 !.pc = "done", !.in = in,
                                 !.out = Respond(in.h, in.id, in.b, "")]]
                /\ locals' = locals
           ELSE /\ reqs' = [reqs EXCEPT ![i] =
                              [IdleGoroutine EXCEPT !.pc = "calling",
                                                    !.in = in]]
                /\ locals' = [locals EXCEPT ![LocalsOf(i)] =
                                [id |-> in.id,
                                 decoded |->
                                    IF Endpoint(in.h).shape = ""
                                    THEN EmptyObject
                                    ELSE Decode(Endpoint(in.h).shape, in.b)]]
        /\ UNCHANGED components
        /\ UNCHANGED <<requestVars, mainVars>>

\* The adapter method builds its parameters and sends the provider call
\* with the shared client; the goroutine then blocks on the network.
CallProvider ==
    \E i \in Goroutines :
        /\ reqs[i].pc = "calling"
        /\ reqs' = [reqs EXCEPT
                      ![i].pc = "waiting",
                      ![i].call =
                          [api |-> Endpoint(reqs[i].in.h).api,
                           id |-> locals[LocalsOf(i)].id,
                           params |-> ProviderParams(reqs[i].in.h,
                                          locals[LocalsOf(i)].decoded),
                           key |-> components.stripeService.secretKey]]
        /\ UNCHANGED <<locals, components>>
        /\ UNCHANGED <<requestVars, mainVars>>

\* The provider answers the call of a goroutine, which writes its response.
ProviderAnswer ==
    \E i \in Goroutines, perr \in {"", "card_declined"} :
        /\ reqs[i].pc = "waiting"
        /\ reqs' = [reqs EXCEPT
                      ![i].pc = "done",
                      ![i].ans = perr,
                      ![i].out = Respond(reqs[i].in.h, reqs[i].call.id,
                                         reqs[i].in.b, perr)]
        /\ UNCHANGED <<locals, components>>
        /\ UNCHANGED <<requestVars, mainVars>>

\* The goroutine of an answered request ends.
Finish ==
    \E i \in Goroutines :
        /\ reqs[i].pc = "done"
        /\ reqs' = [reqs EXCEPT ![i] = IdleGoroutine]
        /\ UNCHANGED <<locals, components>>
        /\ UNCHANGED <<requestVars, mainVars>>

ConcNext ==
    \/ Arrive
    \/ CallProvider
    \/ ProviderAnswer
    \/ Finish

ConcSpec == ConcInit /\ [][ConcNext]_vars

\* ================================================================ claims
\* The inner chain has returned: the response of the request is complete.
Answered == pc \in {"logAfter", "done"}

CreateHandlers ==
    {"CreateCustomer", "CreatePaymentIntent", "CreateProduct", "CreatePrice",
     "CreateSubscription"}

JSONHandlers == CreateHandlers \cup {"ConfirmPaymentIntent"}

IdHandlers == {"GetCustomer", "ConfirmPaymentIntent", "CancelSubscription"}

\* Request struct of each handler that reads a body.
ShapeOf(h) ==
    CASE h = "CreateCustomer" -> "CreateCustomerRequest"
      [] h = "CreatePaymentIntent" -> "CreatePaymentIntentRequest"
      [] h = "CreateProduct" -> "CreateProductRequest"
      [] h = "CreatePrice" -> "CreatePriceRequest"
      [] h = "CreateSubscription" -> "CreateSubscriptionRequest"
      [] OTHER -> "ConfirmPaymentIntentRequest"

\* Operation name of each handler that calls the adapter.
OperationOf(h) ==
    CASE h = "CreateCustomer" -> "create customer"
      [] h = "GetCustomer" -> "get customer"
      [] h = "ListCustomers" -> "list customers"
      [] h = "CreatePaymentIntent" -> "create payment intent"
      [] h = "ConfirmPaymentIntent" -> "confirm payment intent"
      [] h = "CreateProduct" -> "create product"
      [] h = "CreatePrice" -> "create price"
      [] h = "CreateSubscription" -> "create subscription"
      [] h = "CancelSubscription" -> "cancel subscription"
      [] OTHER -> ""

\* Required members of each create request.
RequiredKeys(h) ==
    CASE h = "CreateCustomer" -> {"email", "name"}
      [] h = "CreatePaymentIntent" -> {"amount", "currency"}
      [] h = "CreateProduct" -> {"name"}
      [] h = "CreatePrice" -> {"product_id", "unit_amount", "currency", "type"}
      [] h = "CreateSubscription" -> {"customer_id", "price_id"}
      [] OTHER -> {}

\* The body lacks a required member of the request of handler h.
LacksRequired(h, b) ==
    \E k \in RequiredKeys(h) : b.kind # "object" \/ b.obj[k].t = "absent"

\* A member of the body is present but breaks its constraint: an email that
\* is not one, an amount below 1, a currency not of 3 characters, a price
\* type outside the enumeration, an empty required string.
BreaksConstraint(h, b) ==
    /\ b.kind = "object"
    /\ \/ h = "CreateCustomer" /\ b.obj["email"].t = "string"
          /\ b.obj["email"].s # "a@b.com"
       \/ h = "CreatePaymentIntent" /\ b.obj["amount"].t = "number"
          /\ b.obj["amount"].n < 1
       \/ h = "CreatePrice" /\ b.obj["unit_amount"].t = "number"
          /\ b.obj["unit_amount"].n < 1
       \/ h \in {"CreatePaymentIntent", "CreatePrice"}
          /\ b.obj["currency"].t = "string" /\ Len(b.obj["currency"].s) # 3
       \/ h = "CreatePrice" /\ b.obj["type"].t = "string"
          /\ b.obj["type"].s \notin {"one_time", "recurring"}
       \/ \E k \in RequiredKeys(h) :
            b.obj[k].t = "string" /\ b.obj[k].s = ""

HasCORS(r) ==
    /\ r.headers.allowOrigin = "*"
    /\ r.headers.allowMethods = "GET, POST, PUT, DELETE, OPTIONS"
    /\ r.headers.allowHeaders = "Content-Type, Authorization"

\* C1: a create request whose body decodes but lacks a required member or
\* breaks a member's constraint is answered 400, and neither the adapter nor
\* the provider is called for it.
C1_InvalidCreateRejected ==
    (/\ Answered
     /\ handler \in CreateHandlers
     /\ ~DecodeFails(ShapeOf(handler), body)
     /\ (LacksRequired(handler, body) \/ BreaksConstraint(handler, body)))
    => (/\ resp.status = StatusBadRequest
        /\ resp.writes = 1
        /\ adapterCalls = <<>>
        /\ providerCalls = <<>>)

C1_Witness ==
    /\ pc = "done"
    /\ handler = "CreatePrice"
    /\ body.kind = "object"
    /\ body.obj["product_id"].t = "absent"
    /\ body.obj["unit_amount"] = Num(100)
    /\ body.obj["type"] = Str("recurring")
    /\ resp.status = StatusBadRequest
    /\ adapterCalls = <<>>

\* C2: when the adapter returned an error, the response is 500 with the
\* body {"error": "Failed to <operation>"} fixed by the endpoint alone, so
\* it is the same for every provider error text.
C2_ServiceErrorIsGeneric500 ==
    (Answered /\ result.err # "")
    => (/\ resp.status = StatusInternalServerError
        /\ resp.body = ErrorBody("Failed to " \o OperationOf(handler))
        /\ OperationOf(handler) # "")

C2_Witness ==
    /\ pc = "done"
    /\ handler = "CancelSubscription"
    /\ result.err = "failed to cancel subscription: card_declined"
    /\ resp.status = StatusInternalServerError
    /\ resp.body.msg = "Failed to cancel subscription"

\* C3: on every endpoint that takes a JSON body, reached through the router,
\* a body that does not decode into the request struct (an empty body
\* included) is answered 400 "Invalid JSON format" and the adapter is not
\* invoked.
C3_UndecodableBodyRejected ==
    (/\ Answered
     /\ entry = "router"
     /\ ran # <<>>
     /\ handler \in JSONHandlers
     /\ DecodeFails(ShapeOf(handler), body))
    => (/\ resp.status = StatusBadRequest
        /\ resp.body = ErrorBody("Invalid JSON format")
        /\ adapterCalls = <<>>
        /\ providerCalls = <<>>)

C3_Witness ==
    /\ pc = "done"
    /\ entry = "router"
    /\ handler = "ConfirmPaymentIntent"
    /\ body.kind = "empty"
    /\ resp.status = StatusBadRequest
    /\ resp.body.msg = "Invalid JSON format"

\* C4: when the adapter was invoked and returned no error, a create endpoint
\* answers 201 and get-customer, list-customers, confirm-payment-intent and
\* cancel-subscription answer 200, with the adapter's resource as the body.
C4_SuccessStatus ==
    (Answered /\ adapterCalls # <<>> /\ result.err = "")
    => (/\ resp.status = IF handler \in CreateHandlers
                         THEN StatusCreated ELSE StatusOK
        /\ handler \in CreateHandlers \cup
              {"GetCustomer", "ListCustomers", "ConfirmPaymentIntent",
               "CancelSubscription"}
        /\ resp.body = JSONBody(result.res))

C4_Witness ==
    /\ pc = "done"
    /\ handler = "CreateProduct"
    /\ result.res.kind = "product"
    /\ resp.status = StatusCreated
    /\ resp.body = JSONBody(result.res)

\* C5: GetCustomer, ConfirmPaymentIntent and CancelSubscription called with
\* an empty id answer 400 "Missing or empty id parameter" without invoking
\* the adapter, in ConfirmPaymentIntent whatever the body is.
C5_EmptyIdRejected ==
    (Answered /\ ran # <<>> /\ handler \in IdHandlers /\ urlVars.id = "")
    => (/\ resp.status = StatusBadRequest
        /\ resp.body = ErrorBody("Missing or empty id parameter")
        /\ adapterCalls = <<>>
        /\ providerCalls = <<>>)

C5_Witness ==
    /\ pc = "done"
    /\ handler = "ConfirmPaymentIntent"
    /\ urlVars.id = ""
    /\ body.kind = "object"
    /\ body.obj["payment_method_id"] = Str("pm_1")
    /\ resp.status = StatusBadRequest
    /\ resp.body.msg = "Missing or empty id parameter"

\* C6: GET /api/v1/customers/ sent through the router is answered 400
\* "Missing or empty id parameter".
C6_EmptyIdSegmentIs400 ==
    (/\ pc = "done"
     /\ entry = "router"
     /\ req = [method |-> "GET", path |-> <<"api", "v1", "customers", "">>])
    => (/\ resp.status = StatusBadRequest
        /\ resp.body = ErrorBody("Missing or empty id parameter"))

\* The templates of the route table.
RouteTemplates == {Routes[i].tpl : i \in 1..Len(Routes)}

\* C7: an OPTIONS request to the path of any route is answered 200 with the
\* three Access-Control-Allow-* headers, and no handler or adapter method
\* runs for it.
C7_OptionsOnAnyRoute ==
    (/\ pc = "done"
     /\ entry = "router"
     /\ req.method = "OPTIONS"
     /\ \E t \in RouteTemplates : PathMatches(t, req.path))
    => (/\ resp.status = StatusOK
        /\ HasCORS(resp)
        /\ ran = <<>>
        /\ adapterCalls = <<>>)

\* C8: every response of the server, matched or not, carries the three
\* Access-Control-Allow-* headers.
C8_EveryResponseHasCORS ==
    (pc = "done" /\ entry = "router") => HasCORS(resp)

\* The method and path pairs of the fixed route table.
RouteTable ==
    {[method |-> "GET", tpl |-> <<"api", "v1", "health">>],
     [method |-> "OPTIONS", tpl |-> <<"api", "v1", "health">>],
     [method |-> "POST", tpl |-> <<"api", "v1", "customers">>],
     [method |-> "GET", tpl |-> <<"api", "v1", "customers">>],
     [method |-> "OPTIONS", tpl |-> <<"api", "v1", "customers">>],
     [method |-> "GET", tpl |-> <<"api", "v1", "customers", "{id}">>],
     [method |-> "POST", tpl |-> <<"api", "v1", "payment-intents">>],
     [method |-> "POST",
      tpl |-> <<"api", "v1", "payment-intents", "{id}", "confirm">>],
     [method |-> "POST", tpl |-> <<"api", "v1", "products">>],
     [method |-> "POST", tpl |-> <<"api", "v1", "prices">>],
     [method |-> "POST", tpl |-> <<"api", "v1", "subscriptions">>],
     [method |-> "DELETE", tpl |-> <<"api", "v1", "subscriptions", "{id}">>]}

InRouteTable(m, p) ==
    \E e \in RouteTable :
        /\ e.method = m
        /\ Len(e.tpl) = Len(p)
        /\ \A i \in 1..Len(p) :
            IF e.tpl[i] = "{id}" THEN p[i] # "" ELSE e.tpl[i] = p[i]

EffectiveLimit(limitStr) ==
    IF \E i \in LimitInts : i > 0 /\ ToString(i) = limitStr
    THEN CHOOSE i \in LimitInts : i > 0 /\ ToString(i) = limitStr
    ELSE DefaultCustomerLimit

\* C10: a successful ListCustomers call makes exactly one provider call and
\* returns that page: its entries, at most the page size, and the provider's
\* has_more for that page.
C10_ListFetchesOnePage ==
    (Answered /\ handler = "ListCustomers" /\ result.err = ""
     /\ adapterCalls # <<>>)
    => LET lim == EffectiveLimit(query.limit)
           page == ProviderList(lim, query.cursor)
       IN /\ Len(providerCalls) = 1
          /\ Len(result.res.items) <= lim
          /\ result.res.items = page.data
          /\ result.res.hasMore = page.hasMore

\* C11: a GET /customers request is never rejected for its limit parameter:
\* the adapter is always invoked, and every provider call made for the
\* request carries the parsed limit when it is a positive integer and 10
\* when it is absent, empty, not a number, zero or negative.
C11_PageSizeFromLimit ==
    (Answered /\ handler = "ListCustomers" /\ ran # <<>>)
    => (/\ Len(adapterCalls) = 1
        /\ providerCalls # <<>>
        /\ \A i \in 1..Len(providerCalls) :
              /\ providerCalls[i].api = "Customers.List"
              /\ providerCalls[i].limit = EffectiveLimit(query.limit)
        /\ resp.status # StatusBadRequest
        /\ result.err = "" => resp.status = StatusOK)

C11_Witness ==
    /\ pc = "done"
    /\ entry = "router"
    /\ handler = "ListCustomers"
    /\ query.limit = "-1"
    /\ providerCalls # <<>>
    /\ providerCalls[1].limit = DefaultCustomerLimit
    /\ resp.status = StatusOK

\* C12: a create-price request of type "recurring" without a
\* recurring_interval is answered 400 and makes no provider call, so every
\* create-price call made for a request of type "recurring" carries a
\* recurrence interval.
C12_RecurringCarriesInterval ==
    (/\ handler = "CreatePrice"
     /\ ran # <<>>
     /\ body.kind = "object"
     /\ body.obj["type"] = Str("recurring"))
    => (/\ body.obj["recurring_interval"].t = "absent"
           => (/\ providerCalls = <<>>
               /\ Answered => resp.status = StatusBadRequest)
        /\ \A i \in 1..Len(providerCalls) :
              providerCalls[i].params["recurring_interval"].t # "absent")

\* Member k of body b is absent, zero or negative.
BelowOne(b, k) ==
    \/ b.kind = "null"
    \/ /\ b.kind = "object"
       /\ \/ b.obj[k].t = "absent"
          \/ b.obj[k].t = "number" /\ b.obj[k].n < 1

C14_GracefulShutdown ==
    /\ [](inShutdown => ~listening)
    /\ [][inShutdown
            => \A c \in Conns :
                 /\ conns'[c] = "active" => conns[c] = "active"
                 /\ conns'[c] # conns[c]
                    => (conns[c] = "active" /\ conns'[c] = "closed")]_vars
    /\ []((mainPc = "exited" /\ inShutdown)
           => IF deadline = "expired"
              THEN /\ exitCode # ExitOK
                   /\ \E c \in Conns : conns[c] = "active"
              ELSE /\ exitCode = ExitOK
                   /\ \A c \in Conns : conns[c] = "closed")
    /\ (quit \/ inShutdown) ~> (mainPc = "exited")

C14_Witness ==
    /\ mainPc = "exited"
    /\ inShutdown
    /\ deadline = "expired"
    /\ exitCode = ExitFatal
    /\ conns[1] = "active"
    /\ conns[2] = "closed"

\* C15: when the provider secret key is empty, the process exits with a
\* non-zero status from the configuration check: the adapter, the provider
\* client and the router are never built, the listener goroutine is never
\* started and no connection is ever accepted.
C15_EmptyKeyExitsBeforeListening ==
    /\ [](env["STRIPE_SECRET_KEY"] = ""
           => (/\ ~wired
               /\ lnPc = "none"
               /\ ~listening
               /\ \A c \in Conns : conns[c] = "closed"
               /\ mainPc \in {"load", "validate", "exited"}
               /\ mainPc = "exited" => exitCode # ExitOK))
    /\ (env["STRIPE_SECRET_KEY"] = "")
          ~> (mainPc = "exited" /\ exitCode # ExitOK)

C15_Witness ==
    /\ env["STRIPE_SECRET_KEY"] = ""
    /\ cfg.secretKey = ""
    /\ mainPc = "exited"
    /\ exitCode = ExitFatal
    /\ ~wired
    /\ lnPc = "none"

\* C16: every provider call carries the context the adapter method
\* received, and when that context is cancelled or times out before the
\* provider answers, the call is aborted: the method returns an error
\* wrapping the context's error and no result, and the handler answers 500.
C16_CancelledContextAborts ==
    /\ \A i \in 1..Len(providerCalls) : providerCalls[i].ctx
    /\ ctxDone
       => (/\ providerCalls # <<>>
           /\ providerCalls[Len(providerCalls)].err = ContextCanceled
           /\ result.cause = ContextCanceled
           /\ result.err # ""
           /\ result.res = NilResource
           /\ pc # "panicked"
           /\ Answered => resp.status = StatusInternalServerError)

C16_Witness ==
    /\ pc = "done"
    /\ entry = "router"
    /\ handler = "ListCustomers"
    /\ ctxDone
    /\ Len(providerCalls) = 2
    /\ result.err = "failed to list customers: context canceled"
    /\ resp.status = StatusInternalServerError

\* C17: a request invokes the adapter at most once, and not at all for the
\* health check and for rejected input; each adapter invocation makes
\* exactly one provider call; no provider call follows a failed one.
C17_NoRetries ==
    /\ Len(adapterCalls) <= 1
    /\ (handler = "HealthCheck" \/ resp.status = StatusBadRequest)
       => adapterCalls = <<>>
    /\ Len(providerCalls) = Len(adapterCalls)
    /\ \A i \in 1..(Len(providerCalls) - 1) : providerCalls[i].err = ""

\* The provider call a request makes when it is handled alone.
CallAlone(in) ==
    [api |-> Endpoint(in.h).api,
     id |-> in.id,
     params |-> ProviderParams(in.h,
                    IF Endpoint(in.h).shape = "" THEN EmptyObject
                    ELSE Decode(Endpoint(in.h).shape, in.b)),
     key |-> Load(env).secretKey]

C19_AdapterNeverPanics ==
    adapterCalls # <<>> => pc # "panicked"

\* C20: when a provider call of the request failed, the adapter method
\* returns a nil result (no partial list) and an error whose message is
\* "failed to <operation>: " followed by the provider's error, which is the
\* wrapped cause; without a failure it returns no error.
C20_ProviderFailureWrapped ==
    adapterCalls # <<>>
    => LET last == providerCalls[Len(providerCalls)]
       IN /\ providerCalls # <<>>
          /\ last.err # ""
             => (/\ result.res = NilResource
                 /\ result.res.items = <<>>
                 /\ result.err = "failed to " \o OperationOf(handler)
                                    \o ": " \o last.err
                 /\ result.cause = last.err
                 /\ OperationOf(handler) # "")
          /\ last.err = "" => (result.err = "" /\ result.cause = "")

C20_Witness ==
    /\ pc = "done"
    /\ handler = "ListCustomers"
    /\ Len(providerCalls) = 2
    /\ providerCalls[1].err = ""
    /\ providerCalls[2].err = "card_declined"
    /\ result.res = NilResource
    /\ result.err = "failed to list customers: card_declined"
    /\ result.cause = "card_declined"

\* C21: once main has loaded the configuration, whatever the environment:
\* the port is the integer PORT holds, and 8080 when PORT is unset, empty or
\* not an integer; the host is HOST, and "localhost" when HOST is unset or
\* empty; the secret key is STRIPE_SECRET_KEY, empty when it is unset.
\* Loading never fails: it is the first step of every run.
C21_LoadAppliesDefaults ==
    /\ mainPc = "load" => cfg = NoConfig
    /\ mainPc # "load"
       => (/\ cfg.port =
                 (IF env["PORT"] = "9090" THEN 9090
                  ELSE IF env["PORT"] = "0" THEN 0
                  ELSE IF env["PORT"] = "-1" THEN 0 - 1
                  ELSE DefaultPort)
           /\ cfg.host =
                 (IF env["HOST"] = "" THEN "localhost" ELSE env["HOST"])
           /\ cfg.secretKey = env["STRIPE_SECRET_KEY"])

C21_Witness ==
    /\ mainPc = "validate"
    /\ env["PORT"] = "abc"
    /\ env["HOST"] = "0.0.0.0"
    /\ cfg.port = DefaultPort
    /\ cfg.host = "0.0.0.0"

\* C22: whenever the health handler has run, the response is 200 with the
\* fixed health payload and neither the adapter nor the provider was
\* called; GET /api/v1/health through the router always runs it.
C22_HealthAlwaysOK ==
    /\ (handler = "HealthCheck" /\ ran # <<>>)
       => (/\ Answered
           /\ resp.status = StatusOK
           /\ resp.writes = 1
           /\ resp.body.kind = "json"
           /\ resp.body.data.kind = "health"
           /\ resp.body.data.id = "stripe-service"
           /\ adapterCalls = <<>>
           /\ providerCalls = <<>>
           /\ result = NoResult)
    /\ (/\ pc = "done"
        /\ entry = "router"
        /\ req = [method |-> "GET", path |-> <<"api", "v1", "health">>])
       => (ran = <<"HealthCheck">> /\ resp.status = StatusOK)

C22_Witness ==
    /\ pc = "done"
    /\ entry = "router"
    /\ req = [method |-> "GET", path |-> <<"api", "v1", "health">>]
    /\ ran = <<"HealthCheck">>
    /\ resp.status = StatusOK
    /\ resp.body.data.kind = "health"
    /\ providerCalls = <<>>


\* The handlers whose adapter method converts one provider object, with the
\* kind of the converter it uses.
ConverterOf(h) ==
    CASE h \in {"CreateCustomer", "GetCustomer"} -> "customer"
      [] h \in {"CreatePaymentIntent", "ConfirmPaymentIntent"}
            -> "payment_intent"
      [] h = "CreateProduct" -> "product"
      [] h = "CreatePrice" -> "price"
      [] h \in {"CreateSubscription", "CancelSubscription"} -> "subscription"
      [] OTHER -> ""

\* The provider answered the one call of the request with a nil object and
\* no error.
NilAnswer ==
    /\ Len(providerCalls) = 1
    /\ ConverterOf(handler) # ""
    /\ providerCalls[1].err = ""
    /\ providerCalls[1].obj.nil

\* C23: each of the five converters, given a nil provider object, returns
\* nil: the adapter's result is the nil model, not a zero-value model of the
\* converter's kind, and nothing fails (no error, no panic).
C23_NilConvertsToNil ==
    NilAnswer
    => /\ result.res = NilResource
       /\ result.res.kind # ConverterOf(handler)
       /\ result.err = ""
       /\ pc # "panicked"

\* A price converter was handed a nil object and the request completed.
C23_Witness ==
    /\ NilAnswer
    /\ handler = "CreatePrice"
    /\ pc = "done"
    /\ result.res = NilResource

\* C24: the Customer converted from a provider customer has the provider's
\* ID, Email, Name, Phone, Description and Metadata, CreatedAt at the
\* provider's creation second, and UpdatedAt equal to CreatedAt.
C24_CustomerFieldsCopied ==
    (/\ ConverterOf(handler) = "customer"
     /\ Len(providerCalls) = 1
     /\ providerCalls[1].err = ""
     /\ ~providerCalls[1].obj.nil)
    => LET c == providerCalls[1].obj.cust
           m == result.res
       IN /\ m.kind = "customer"
          /\ m.id = (IF handler = "GetCustomer" THEN providerCalls[1].id
                     ELSE "cus_new")
          /\ m.fields.email = c.email
          /\ m.fields.name = c.name
          /\ m.fields.phone = c.phone
          /\ m.fields.description = c.description
          /\ m.fields.metadata = c.metadata
          /\ m.fields.createdAt = c.created
          /\ m.fields.updatedAt = m.fields.createdAt

\* A customer with every field set was fetched and converted.
C24_Witness ==
    /\ handler = "GetCustomer"
    /\ pc = "done"
    /\ Len(providerCalls) = 1
    /\ providerCalls[1].err = ""
    /\ providerCalls[1].obj = [GoodObject EXCEPT !.cust = FullCustomer]
    /\ result.res.fields.phone = "+100"
    /\ result.res.fields.metadata = {<<"tier", "gold">>}
    /\ result.res.fields.updatedAt = 1700000000
    /\ resp.status = StatusOK

\* The optional string fields of the three create requests the claim names
\* (metadata maps are not part of the modelled requests).
OptionalFields(h) ==
    CASE h = "CreateCustomer" -> {"phone", "description"}
      [] h = "CreatePaymentIntent"
            -> {"customer_id", "description", "payment_method_id",
                "confirmation_method"}
      [] h = "CreateProduct" -> {"description"}
      [] OTHER -> {}

\* C25: in every create call of the adapter, an optional request field that
\* is empty is left out of the provider parameters, not sent as an explicit
\* empty value.
C25_EmptyOptionalLeftOut ==
    (Len(adapterCalls) = 1 /\ Len(providerCalls) = 1)
    => \A k \in OptionalFields(adapterCalls[1].method) :
          adapterCalls[1].req[k] = Str("")
          => providerCalls[1].params[k] = Abs


\* C26: for a request that matched a route, the logging middleware wraps
\* the rest of the chain: nothing is logged while CORS and the handler run,
\* and once the request is over there is exactly one log entry, for this
\* request, whose status is the status sent to the client (200 when none
\* was written); an OPTIONS request answered by CORS is logged the same way.
C26_OneLogEntryWithStatus ==
    (entry = "router" /\ handler # "")
    => /\ pc \in {"logging", "cors", "handler", "logAfter"} => logs = <<>>
       /\ pc \in {"cors", "handler"} => wrapper = StatusOK
       /\ pc \in {"done", "panicked"}
          => (/\ Len(logs) = 1
              /\ logs[1].method = req.method
              /\ logs[1].path = req.path
              /\ logs[1].status = (IF resp.status = 0 THEN StatusOK
                                   ELSE resp.status))


\* C27: on every path of every handler the status header is written exactly
\* once and a handler ends with exactly one success write or error write; a
\* failure to encode the body is only logged: the status stays the one
\* written and no second response is made.
C27_StatusWrittenOnce ==
    /\ (pc \in {"logAfter", "done", "panicked"} /\ ran # <<>>)
       => (/\ resp.writes = 1
           /\ resp.status = resp.lastCode
           /\ resp.status # 0
           /\ resp.body.kind \in {"json", "error"}
           /\ resp.body.kind = "json"
              <=> resp.status \in {StatusOK, StatusCreated}
           /\ resp.headers.contentType = "application/json")
    /\ resp.encodeLogged => (resp.writes = 1 /\ resp.status = resp.lastCode)


\* C28: every provider call ListCustomers makes carries a page size between
\* 1 and MaxCustomerLimit, whatever limit the caller supplied.
C28_PageSizeWithinMax ==
    handler = "ListCustomers"
    => \A i \in 1..Len(providerCalls) :
          /\ providerCalls[i].limit >= 1
          /\ providerCalls[i].limit <= MaxCustomerLimit


\* C29: a ListCustomers response with has_more = true carries a non-empty
\* next_cursor, the id after which the next request continues the listing:
\* that of the last customer returned.
C29_HasMoreCarriesCursor ==
    (/\ handler = "ListCustomers"
     /\ Answered
     /\ resp.status = StatusOK
     /\ resp.body.data.hasMore)
    => /\ resp.body.data.nextCursor # ""
       /\ resp.body.data.items # <<>>
       /\ resp.body.data.nextCursor
             = resp.body.data.items[Len(resp.body.data.items)]


\* C30: when ListenAndServe returns for another reason than an orderly close
\* (the address cannot be bound, accepting fails), the whole process exits
\* with a non-zero status; main never waits for a signal with a listener
\* goroutine that has returned, and while it waits without a serving
\* listener, the listener comes up or the process leaves the wait.
C30_ListenerFailureIsFatal ==
    /\ []((lnPc = "returned" /\ ~inShutdown)
           => (mainPc = "exited" /\ exitCode # ExitOK))
    /\ [](mainPc = "wait" => lnPc \in {"start", "serving"})
    /\ (mainPc = "wait" /\ ~listening) ~> (listening \/ mainPc # "wait")

\* The listener failed while main was waiting for a signal, and the process
\* is gone.
C30_Witness ==
    /\ lnPc = "returned"
    /\ ~inShutdown
    /\ ~listening
    /\ notify
    /\ ~quit
    /\ mainPc = "exited"
    /\ exitCode = ExitFatal

====
